---------------------------- MODULE Spec2Model ----------------------------
(***************************************************************************)
(* GA4-Data-Fetcher: the classifier (user_classification.py), the metric   *)
(* fetcher (ga4_data_fetcher.py), the batch functions (batch_processor.py) *)
(* and the entry points that drive them (ga4_fetcher.py,                   *)
(* ga4_fetcher_uptodate.py, date_range_analytics.py,                       *)
(* url_trend_analysis.py).                                                 *)
(*                                                                         *)
(* Strings of the program whose content is inspected (metric values, date  *)
(* texts) are sequences or tuples, so that parsing and formatting are      *)
(* computed and not assumed.                                               *)
(***************************************************************************)
EXTENDS Integers, Sequences, FiniteSets, TLC

VARIABLES
    script,         \* the entry point that runs
    args,           \* its inputs: command line, input file, function arguments
    pc,             \* position in the running code
    df,             \* the DataFrame of a batch run: a sequence of rows
    invalid_dates,  \* the list invalid_dates of a batch run
    cur,            \* loop positions: row index i and period index k
    log,            \* backend calls, sleeps and classifications, in order
    exc,            \* the exception that left the entry point, or "none"
    result          \* value returned by the function under call

vars == <<script, args, pc, df, invalid_dates, cur, log, exc, result>>

(***************************************************************************)
(* Bounds of the model.                                                    *)
(***************************************************************************)
MaxUsers == 100001          \* counts 0..MaxUsers are classified
MaxRows == 2                \* rows of an input table, urls on a command line
MaxRespRows == 2            \* rows of one backend response
MaxDigits == 2              \* characters of one metric value
MaxTail == 2                \* characters after the padding of a url

(***************************************************************************)
(* user_classification.py                                                  *)
(***************************************************************************)
classify_users_off_by_one(users, detailed) ==
    IF users <= 10000 THEN "0-10k"
    ELSE IF users <= 20000 THEN "10-20k"
    ELSE IF users <= 30000 THEN "20-30k"
    ELSE IF users <= 40000 THEN "30-40k"
    ELSE IF detailed /\ users <= 100000 THEN "40k-100k"
    ELSE IF ~detailed THEN ">40k" ELSE ">100k"

classify_users_unordered(users, detailed) ==
    IF users < 10000 THEN "0-10k"
    ELSE IF users < 20000 THEN "20-30k"
    ELSE IF users < 30000 THEN "10-20k"
    ELSE IF users < 40000 THEN "30-40k"
    ELSE IF detailed /\ users < 100000 THEN "40k-100k"
    ELSE IF ~detailed THEN ">40k" ELSE ">100k"

classify_users(users, detailed) ==
    IF users < 10000 THEN "0-10k"
    ELSE IF users < 20000 THEN "10-20k"
    ELSE IF users < 30000 THEN "20-30k"
    ELSE IF users < 40000 THEN "30-40k"
    ELSE IF detailed /\ users < 100000 THEN "40k-100k"
    ELSE IF ~detailed THEN ">40k" ELSE ">100k"

(***************************************************************************)
(* ga4_data_fetcher.py: get_users_for_url, from the backend call on.       *)
(* A metric value is the sequence of its characters.  int() is modelled on *)
(* decimal digits: any other character, and the empty text, raise          *)
(* ValueError.                                                             *)
(***************************************************************************)
DigitValue(c) ==
    CASE c = "0" -> 0 [] c = "1" -> 1 [] c = "2" -> 2 [] c = "3" -> 3
      [] c = "4" -> 4 [] c = "5" -> 5 [] c = "6" -> 6 [] c = "7" -> 7
      [] c = "8" -> 8 [] c = "9" -> 9 [] OTHER -> -1

IsIntLiteral(s) == Len(s) > 0 /\ \A j \in 1..Len(s) : DigitValue(s[j]) >= 0

RECURSIVE IntOf(_)
IntOf(s) ==
    IF Len(s) = 0 THEN 0
    ELSE 10 * IntOf(SubSeq(s, 1, Len(s) - 1)) + DigitValue(s[Len(s)])

\* The loop over response.rows: user_count after the rows from k on, or
\* "raised" where int() fails.
RECURSIVE SumRows(_, _, _)
SumRows(rows, k, user_count) ==
    IF k > Len(rows) THEN [raised |-> FALSE, value |-> user_count]
    ELSE IF ~IsIntLiteral(rows[k].value) THEN [raised |-> TRUE, value |-> user_count]
    ELSE SumRows(rows, k + 1, user_count + IntOf(rows[k].value))

\* The try block: run_report, then the sum.
TryBody(outcome) ==
    IF outcome.kind = "error" THEN [raised |-> TRUE, value |-> 0]
    ELSE SumRows(outcome.rows, 1, 0)

get_users_for_url_first_row(outcome) ==
    IF outcome.kind = "error" THEN [raised |-> FALSE, value |-> 0]
    ELSE IF Len(outcome.rows) = 0 THEN [raised |-> FALSE, value |-> 0]
    ELSE LET t == SumRows(SubSeq(outcome.rows, 1, 1), 1, 0)
         IN  IF t.raised THEN [raised |-> FALSE, value |-> 0] ELSE t

get_users_for_url_propagates(outcome) == TryBody(outcome)

get_users_for_url_partial_sum(outcome) ==
    [raised |-> FALSE, value |-> TryBody(outcome).value]

\* What get_users_for_url gives its caller for a backend outcome: `raised'
\* tells whether an exception leaves the function.
get_users_for_url(outcome) ==
    LET t == TryBody(outcome)
    IN  IF t.raised THEN [raised |-> FALSE, value |-> 0] ELSE t

(***************************************************************************)
(* ga4_data_fetcher.py: the pattern of the pagePath filter.  A str is the  *)
(* sequence of its characters; an optional str argument is <<>> for None   *)
(* and <<s>> for the str s.                                                *)
(***************************************************************************)
SitePrefix ==
    << "h", "t", "t", "p", "s", ":", "/", "/", "w", "w", "w", ".", "y", "o",
       "u", "r", "p", "a", "g", "e", ".", "c", "o", "m", "/" >>

PatternLimit == 40

\* The characters re.escape puts a backslash before (the vertical tab, which
\* has no TLA+ literal, is left out of the alphabet of the model).
SpecialChars ==
    { "(", ")", "[", "]", "{", "}", "?", "*", "+", "-", "|", "^", "$", "\\",
      ".", "&", "~", "#", " ", "\t", "\n", "\r", "\f" }

startswith(s, prefix) ==
    Len(s) >= Len(prefix) /\ SubSeq(s, 1, Len(prefix)) = prefix

replace_first_nothing(s, old) == s

\* s.replace(old, "", 1): s without the leftmost occurrence of old.
RECURSIVE replace_first(_, _)
replace_first(s, old) ==
    IF Len(s) < Len(old) THEN s
    ELSE IF startswith(s, old) THEN SubSeq(s, Len(old) + 1, Len(s))
    ELSE <<Head(s)>> \o replace_first(Tail(s), old)

Truncate_one_more(s, n) == SubSeq(s, 1, IF Len(s) < n + 1 THEN Len(s) ELSE n + 1)

\* s[:n]
Truncate(s, n) == SubSeq(s, 1, IF Len(s) < n THEN Len(s) ELSE n)

RECURSIVE escape(_)
escape(s) ==
    IF s = <<>> THEN <<>>
    ELSE (IF Head(s) \in SpecialChars THEN <<"\\", Head(s)>> ELSE <<Head(s)>>)
             \o escape(Tail(s))

create_url_regex_pattern_escape_first(url) ==
    LET processed_url ==
            IF startswith(url, SitePrefix) THEN replace_first(url, SitePrefix)
            ELSE url
    IN  Truncate(escape(processed_url), PatternLimit)

create_url_regex_pattern(url) ==
    LET processed_url ==
            IF startswith(url, SitePrefix) THEN replace_first(url, SitePrefix)
            ELSE url
    IN  escape(Truncate(processed_url, PatternLimit))

regex_pattern_ignores_custom(url, custom_regex) == create_url_regex_pattern(url)

\* `if custom_regex:' holds for a str that is not empty; None and "" take
\* the else branch.
regex_pattern(url, custom_regex) ==
    IF custom_regex # <<>> /\ custom_regex[1] # <<>> THEN custom_regex[1]
    ELSE create_url_regex_pattern(url)


(***************************************************************************)
(* Calendar dates.  A date text "YYYY-MM-DD" is the tuple <<y, m, d>>; a   *)
(* Timestamp / datetime is [nat, ord, tod]: NaT or not, the proleptic      *)
(* Gregorian ordinal of its day and the seconds since midnight.  strptime, *)
(* pd.to_datetime and strftime are computed with the arithmetic of         *)
(* Python's datetime (toordinal / fromordinal).                            *)
(***************************************************************************)
IsLeap(y) == y % 4 = 0 /\ (y % 100 # 0 \/ y % 400 = 0)

DaysInMonth(y, m) ==
    IF m = 2 /\ IsLeap(y) THEN 29
    ELSE <<31, 28, 31, 30, 31, 30, 31, 31, 30, 31, 30, 31>>[m]

DaysBeforeYear(y) ==
    LET p == y - 1 IN p * 365 + (p \div 4) - (p \div 100) + (p \div 400)

DaysBeforeMonth(y, m) ==
    <<0, 31, 59, 90, 120, 151, 181, 212, 243, 273, 304, 334>>[m]
        + (IF m > 2 /\ IsLeap(y) THEN 1 ELSE 0)

IsDateText(t) ==
    /\ t[1] >= 1 /\ t[1] <= 9999
    /\ t[2] >= 1 /\ t[2] <= 12
    /\ t[3] >= 1 /\ t[3] <= DaysInMonth(t[1], t[2])

\* date.toordinal
Ymd2Ord(t) == DaysBeforeYear(t[1]) + DaysBeforeMonth(t[1], t[2]) + t[3]

\* date.fromordinal
Ord2Ymd(ord) ==
    LET n0   == ord - 1
        n400 == n0 \div 146097
        r400 == n0 % 146097
        n100 == r400 \div 36524
        r100 == r400 % 36524
        n4   == r100 \div 1461
        r4   == r100 % 1461
        n1   == r4 \div 365
        n    == r4 % 365
        year == n400 * 400 + 1 + n100 * 100 + n4 * 4 + n1
    IN  IF n1 = 4 \/ n100 = 4 THEN <<year - 1, 12, 31>>
        ELSE LET leap  == n1 = 3 /\ (n4 # 24 \/ n100 = 3)
                 m0    == (n + 50) \div 32
                 prec0 == <<0, 31, 59, 90, 120, 151, 181, 212, 243, 273, 304, 334>>[m0]
                              + (IF m0 > 2 /\ leap THEN 1 ELSE 0)
                 month == IF prec0 > n THEN m0 - 1 ELSE m0
                 prec  == IF prec0 > n
                          THEN prec0 - (<<31, 28, 31, 30, 31, 30, 31, 31, 30, 31, 30, 31>>[month]
                                          + (IF month = 2 /\ leap THEN 1 ELSE 0))
                          ELSE prec0
             IN  <<year, month, n - prec + 1>>

NaT == [nat |-> TRUE, ord |-> 0, tod |-> 0]

\* datetime.datetime.strptime(text, "%Y-%m-%d"): midnight of the day; the
\* caller tests IsDateText first (ValueError otherwise).
strptime(t) == [nat |-> FALSE, ord |-> Ymd2Ord(t), tod |-> 0]

\* ts.strftime("%Y-%m-%d"): the calendar day, the time of day dropped.
strftime(ts) == Ord2Ymd(ts.ord)

\* ts + datetime.timedelta(days=days)
PlusDays(ts, days) == [nat |-> FALSE, ord |-> ts.ord + days, tod |-> ts.tod]

\* pub_date > end_date on Timestamps: the instant, not the day.
TsGreater(a, b) == a.ord > b.ord \/ (a.ord = b.ord /\ a.tod > b.tod)

(***************************************************************************)
(* Cells of the input CSV.  A date cell is NaN (empty) or a text with day  *)
(* and time of day; pd.to_datetime turns NaN into NaT, a text that names a *)
(* calendar day into its Timestamp, and raises on any other text.          *)
(***************************************************************************)
NaNCell == [kind |-> "nan", ymd |-> <<0, 0, 0>>, tod |-> 0]
TextCell(y, m, d, tod) == [kind |-> "text", ymd |-> <<y, m, d>>, tod |-> tod]

CellParses(c) == c.kind = "nan" \/ IsDateText(c.ymd)

ParseCell(c) ==
    IF c.kind = "nan" THEN NaT
    ELSE [nat |-> FALSE, ord |-> Ymd2Ord(c.ymd), tod |-> c.tod]

\* pd.to_datetime(df['date_published']), errors='raise' by default: one
\* text that is no date makes the whole conversion raise.
to_datetime(rows) ==
    IF \E j \in 1..Len(rows) : ~CellParses(rows[j].date_published)
    THEN [raised |-> TRUE, rows |-> rows]
    ELSE [raised |-> FALSE,
          rows |-> [j \in 1..Len(rows) |->
                      [rows[j] EXCEPT !.date_published = ParseCell(@)]]]

isna_never(ts) == FALSE

\* pd.isna(pub_date)
isna(ts) == ts.nat

(***************************************************************************)
(* Inputs of the runs.                                                     *)
(***************************************************************************)
Urls ==
    { SitePrefix \o <<"a">>,
      <<"h", "t", "t", "p", ":", "/", "/", "x", ".", "o", "r", "g", "/", "b">> }

\* Date cells of the input file: empty, a midnight, a noon, and a text
\* that names no calendar day.
DateCells ==
    { NaNCell, TextCell(2024, 2, 28, 0), TextCell(2024, 2, 29, 43200),
      TextCell(2024, 2, 30, 0) }

RegexCells == { <<>>, << <<"^", "/", "a", "$">> >> }

RequiredCols == {"url", "date_published"}

ColSets == { RequiredCols, RequiredCols \cup {"regex"}, {"url"}, {"date_published"} }

\* A cell of a column the file does not have takes no part in the run.  In
\* the tables of the model a custom pattern goes with the page of the site.
CsvRows(cols) ==
    { r \in [ url : IF "url" \in cols THEN Urls ELSE {<<>>},
              date_published : IF "date_published" \in cols THEN DateCells ELSE {NaNCell},
              regex : IF "regex" \in cols THEN RegexCells ELSE {<<>>} ] :
          r.regex # <<>> => startswith(r.url, SitePrefix) }

\* The input file: a table of up to MaxRows rows, or a file that cannot be
\* read (nothing of it reaches the program).
InputFile(readable, cols, rows) ==
    IF readable THEN [readable |-> TRUE, cols |-> cols, rows |-> rows]
    ELSE [readable |-> FALSE, cols |-> {}, rows |-> <<>>]

\* --days (type=int, nargs='+'): one value or more, of either sign.
DaysLists == { <<0>>, <<-1>>, <<2, 1>>, <<1, 1>> }

\* --date, --start-date, --end-date texts.
DateTexts == { <<2024, 2, 28>>, <<2024, 2, 29>>, <<2024, 3, 1>> }
BadDateText == <<2024, 2, 30>>

SleepTimes == {10}

\* What the backend does with one query: it raises, or it answers with
\* rows (pagePath, totalUsers value).
Row(path, value) == [path |-> path, value |-> value]
PagePath(j) == <<"/path", j>>
ErrorOutcome(e) == [kind |-> "error", error |-> e, rows |-> <<>>]
RowsOutcome(rows) == [kind |-> "rows", error |-> "none", rows |-> rows]

\* The outcomes a run of an entry point meets: a failure, and one page path
\* with 12000 users.
BatchOutcomes ==
    { ErrorOutcome("network"),
      RowsOutcome(<< Row(PagePath(1), <<"1", "2", "0", "0", "0">>) >>) }

\* What the backend may answer to a query for a url: the page of the site
\* has 12000 users, any other page 45000, and every query may fail.
BackendOutcomes(url) ==
    IF startswith(url, SitePrefix) THEN BatchOutcomes
    ELSE { ErrorOutcome("network"),
           RowsOutcome(<< Row(PagePath(1), <<"4", "5", "0", "0", "0">>) >>) }

\* The outcomes get_users_for_url is called on by itself: every failure,
\* and every response of up to MaxRespRows rows whose values have up to
\* MaxDigits characters.
ErrorKinds == {"network", "auth", "filter"}
MetricChars == {"3", "5", "x"}
MetricValues == UNION { [1..n -> MetricChars] : n \in 0..MaxDigits }

\* The response whose rows carry the values vs, one page path each.
ResponseOf(vs) == RowsOutcome([j \in 1..Len(vs) |-> Row(PagePath(j), vs[j])])

Range(f) == { f[j] : j \in DOMAIN f }

(***************************************************************************)
(* Events of the log.                                                      *)
(***************************************************************************)
\* get_users_for_url(client, property_id, url, start_date, end_date,
\* custom_regex): custom_regex is <<>> where the caller passes none.
CallEvent(i, col, url, start, end, custom_regex) ==
    [op |-> "run_report", row |-> i, col |-> col, url |-> url,
     start |-> start, end |-> end, custom_regex |-> custom_regex,
     pattern |-> regex_pattern(url, custom_regex)]
SleepEvent(secs) == [op |-> "sleep", secs |-> secs]
ClassifyEvent == [op |-> "classify"]

Abort(kind) ==
    /\ pc' = "aborted"
    /\ exc' = kind

(***************************************************************************)
(* batch_processor.py, driven by ga4_fetcher.py (process_url_batch,        *)
(* calculate_user_milestones) and by ga4_fetcher_uptodate.py               *)
(* (process_url_batch_to_date, calculate_user_milestones_to_date).         *)
(***************************************************************************)
BatchScripts == {"ga4_fetcher", "ga4_fetcher_uptodate"}

InitBatch ==
    /\ script \in BatchScripts
    /\ \E readable \in BOOLEAN, cols \in ColSets, n \in 0..MaxRows, s \in SleepTimes :
        \E rows \in [1..n -> CsvRows(cols)] :
          LET f == InputFile(readable, cols, rows)
          IN  \/ /\ script = "ga4_fetcher"
                 /\ \E dl \in DaysLists :
                       args = [input_file |-> f, sleep_time |-> s, days_list |-> dl]
              \/ /\ script = "ga4_fetcher_uptodate"
                 /\ \E t \in DateTexts \cup {BadDateText} :
                       args = [input_file |-> f, sleep_time |-> s, date |-> t]
    /\ pc = "main"
    /\ df = <<>>
    /\ invalid_dates = <<>>
    /\ cur = [i |-> 0, k |-> 0]
    /\ log = <<>>
    /\ exc = "none"
    /\ result = "none"

\* ga4_fetcher_uptodate.main: --date is parsed before anything is loaded;
\* a text that is no date ends the program with a message.
ParseArgs ==
    /\ pc = "main"
    /\ script \in BatchScripts
    /\ IF script = "ga4_fetcher_uptodate" /\ ~IsDateText(args.date)
       THEN pc' = "usage_exit"
       ELSE pc' = "read_csv"
    /\ UNCHANGED <<script, args, df, invalid_dates, cur, log, exc, result>>

\* The DataFrame of the rows of the file, one row each, in the order of the
\* file; the users and milestone columns are added later.
DataFrame_dropna(rows) ==
    LET kept == SelectSeq(rows, LAMBDA r : r.date_published.kind # "nan")
    IN  [j \in 1..Len(kept) |->
            [url |-> kept[j].url,
             date_published |-> kept[j].date_published,
             regex |-> kept[j].regex,
             users |-> <<>>,
             milestone |-> <<>>,
             milestone_detailed |-> <<>>]]

DataFrame(rows) ==
    [j \in 1..Len(rows) |->
        [url |-> rows[j].url,
         date_published |-> rows[j].date_published,
         regex |-> rows[j].regex,
         users |-> <<>>,
         milestone |-> <<>>,
         milestone_detailed |-> <<>>]]

\* df = pd.read_csv(input_file)
read_csv ==
    /\ pc = "read_csv"
    /\ IF ~args.input_file.readable
       THEN /\ Abort("FileNotFoundError")
            /\ UNCHANGED df
       ELSE /\ df' = DataFrame(args.input_file.rows)
            /\ pc' = "to_datetime"
            /\ UNCHANGED exc
    /\ UNCHANGED <<script, args, invalid_dates, cur, log, result>>

\* df['date_published'] = pd.to_datetime(df['date_published'])
ConvertDates ==
    /\ pc = "to_datetime"
    /\ IF "date_published" \notin args.input_file.cols
       THEN /\ Abort("KeyError")
            /\ UNCHANGED df
       ELSE LET r == to_datetime(df)
            IN  IF r.raised
                THEN /\ Abort("ValueError")
                     /\ UNCHANGED df
                ELSE /\ df' = r.rows
                     /\ pc' = "add_columns"
                     /\ UNCHANGED exc
    /\ UNCHANGED <<script, args, invalid_dates, cur, log, result>>

\* The end date of the up-to-cutoff run and the name of its column.
EndDate == strptime(args.date)
EndDateStr == strftime(EndDate)

\* The keys of the users_ columns: the days of days_list (users_<days>_days),
\* or the cutoff text (users_to_<end_date_str>).
UsersColumns ==
    IF script = "ga4_fetcher" THEN Range(args.days_list) ELSE {EndDateStr}

\* for days in days_list: df[f'users_{days}_days'] = 0
\* df[users_column] = 0
AddColumns ==
    /\ pc = "add_columns"
    /\ df' = [j \in 1..Len(df) |->
                [df[j] EXCEPT !.users = [c \in UsersColumns |-> 0]]]
    /\ pc' = "rows"
    /\ UNCHANGED <<script, args, invalid_dates, cur, log, exc, result>>

(***************************************************************************)
(* The windows.                                                            *)
(***************************************************************************)
OffsetWindow_EndExclusive(pub_date, days) ==
    [start |-> strftime(pub_date), end |-> strftime(PlusDays(pub_date, days - 1))]

\* Fixed offset: start_date_str and end_date_str of process_url_batch.
OffsetWindow(pub_date, days) ==
    [start |-> strftime(pub_date), end |-> strftime(PlusDays(pub_date, days))]

PublishedAfter_Never(pub_date, end_date) == FALSE

\* Up to cutoff: `if pub_date > end_date: continue'.
PublishedAfter(pub_date, end_date) == TsGreater(pub_date, end_date)

CutoffWindow(pub_date, end_date) ==
    [start |-> strftime(pub_date), end |-> strftime(end_date)]

\* The regex of the row, where process_url_batch_to_date passes one.
RowRegex(row) ==
    IF "regex" \in args.input_file.cols /\ row.regex # <<>>
    THEN <<row.regex[1]>> ELSE <<>>

(***************************************************************************)
(* The loop over the rows.                                                 *)
(***************************************************************************)
\* invalid_dates.append({'row': i + 1, 'url': url}) for the row at the
\* 0-based position i.
AppendInvalid_dropped(invalid, i, url) == invalid

AppendInvalid_zero_based(invalid, i, url) == Append(invalid, [row |-> i, url |-> url])

AppendInvalid(invalid, i, url) == Append(invalid, [row |-> i + 1, url |-> url])

\* for i, row in df.iterrows(): the head of the loop, up to the first
\* fetch of the row or the `continue' that skips it.
NextRow ==
    /\ pc = "rows"
    /\ script \in BatchScripts
    /\ IF cur.i = Len(df)
       THEN /\ pc' = "returned"
            /\ UNCHANGED <<invalid_dates, cur, exc>>
       ELSE LET i == cur.i + 1
                row == df[i]
            IN  IF "url" \notin args.input_file.cols
                THEN /\ Abort("KeyError")
                     /\ UNCHANGED <<invalid_dates, cur>>
                ELSE IF isna(row.date_published)
                THEN /\ invalid_dates' = AppendInvalid(invalid_dates, i - 1, row.url)
                     /\ cur' = [i |-> i, k |-> 0]
                     /\ UNCHANGED <<pc, exc>>
                ELSE IF script = "ga4_fetcher_uptodate"
                        /\ PublishedAfter(row.date_published, EndDate)
                THEN /\ cur' = [i |-> i, k |-> 0]
                     /\ UNCHANGED <<pc, invalid_dates, exc>>
                ELSE /\ cur' = [i |-> i, k |-> 1]
                     /\ pc' = "fetch"
                     /\ UNCHANGED <<invalid_dates, exc>>
    /\ UNCHANGED <<script, args, df, log, result>>

FetchColumn_reversed ==
    IF script = "ga4_fetcher" THEN args.days_list[Len(args.days_list) + 1 - cur.k]
    ELSE EndDateStr

\* The query of the current row and period.
FetchColumn ==
    IF script = "ga4_fetcher" THEN args.days_list[cur.k] ELSE EndDateStr

FetchWindow ==
    IF script = "ga4_fetcher"
    THEN OffsetWindow(df[cur.i].date_published, args.days_list[cur.k])
    ELSE CutoffWindow(df[cur.i].date_published, EndDate)

FetchRegex ==
    IF script = "ga4_fetcher" THEN <<>> ELSE RowRegex(df[cur.i])

WriteCell_whole_row(d, i, column, users_count) ==
    [d EXCEPT ![i].users = [c \in DOMAIN d[i].users |-> users_count]]

\* df.at[i, column] = users_count
WriteCell(d, i, column, users_count) == [d EXCEPT ![i].users[column] = users_count]

\* users_count = get_users_for_url(...); df.at[i, column] = users_count
Fetch ==
    /\ pc = "fetch"
    /\ script \in BatchScripts
    /\ log' = Append(log, CallEvent(cur.i, FetchColumn, df[cur.i].url,
                                    FetchWindow.start, FetchWindow.end, FetchRegex))
    /\ \E o \in BackendOutcomes(df[cur.i].url) :
          LET r == get_users_for_url(o)
          IN  IF r.raised
              THEN /\ Abort("Exception")
                   /\ UNCHANGED df
              ELSE /\ df' = WriteCell(df, cur.i, FetchColumn, r.value)
                   /\ pc' = "sleep"
                   /\ UNCHANGED exc
    /\ UNCHANGED <<script, args, invalid_dates, cur, result>>

\* time.sleep(sleep_time), then the next period of the row or the next row.
Sleep ==
    /\ pc = "sleep"
    /\ log' = Append(log, SleepEvent(args.sleep_time))
    /\ IF script = "ga4_fetcher" /\ cur.k < Len(args.days_list)
       THEN /\ cur' = [cur EXCEPT !.k = cur.k + 1]
            /\ pc' = "fetch"
       ELSE /\ pc' = "rows"
            /\ UNCHANGED cur
    /\ UNCHANGED <<script, args, df, invalid_dates, exc, result>>

calculate_user_milestones_one_granularity ==
    /\ pc = "returned"
    /\ df' = [j \in 1..Len(df) |->
                [df[j] EXCEPT
                   !.milestone =
                       [c \in DOMAIN df[j].users |-> classify_users(df[j].users[c], FALSE)],
                   !.milestone_detailed =
                       [c \in DOMAIN df[j].users |-> classify_users(df[j].users[c], FALSE)]]]
    /\ log' = Append(log, ClassifyEvent)
    /\ pc' = "classified"
    /\ UNCHANGED <<script, args, invalid_dates, cur, exc, result>>

calculate_user_milestones_eager ==
    /\ pc \in {"rows", "returned"}
    /\ script \in BatchScripts
    /\ df' = [j \in 1..Len(df) |->
                [df[j] EXCEPT
                   !.milestone =
                       [c \in DOMAIN df[j].users |-> classify_users(df[j].users[c], FALSE)],
                   !.milestone_detailed =
                       [c \in DOMAIN df[j].users |-> classify_users(df[j].users[c], TRUE)]]]
    /\ log' = Append(log, ClassifyEvent)
    /\ pc' = "classified"
    /\ UNCHANGED <<script, args, invalid_dates, cur, exc, result>>

\* calculate_user_milestones / calculate_user_milestones_to_date, called by
\* main once the batch function has returned.
calculate_user_milestones ==
    /\ pc = "returned"
    /\ df' = [j \in 1..Len(df) |->
                [df[j] EXCEPT
                   !.milestone =
                       [c \in DOMAIN df[j].users |-> classify_users(df[j].users[c], FALSE)],
                   !.milestone_detailed =
                       [c \in DOMAIN df[j].users |-> classify_users(df[j].users[c], TRUE)]]]
    /\ log' = Append(log, ClassifyEvent)
    /\ pc' = "classified"
    /\ UNCHANGED <<script, args, invalid_dates, cur, exc, result>>

\* df.to_csv(output_file); print("Done!")
SaveResults ==
    /\ pc = "classified"
    /\ pc' = "done"
    /\ UNCHANGED <<script, args, df, invalid_dates, cur, log, exc, result>>

(***************************************************************************)
(* date_range_analytics.py: one fixed window for every url of the command  *)
(* line.  The texts of --start-date and --end-date go to the backend as    *)
(* given.                                                                  *)
(***************************************************************************)
UrlLists == UNION { [1..n -> Urls] : n \in 1..MaxRows }

InitDateRange ==
    /\ script = "date_range_analytics"
    /\ \E us \in UrlLists, a \in DateTexts, b \in DateTexts :
          args = [urls |-> us, start_date |-> a, end_date |-> b]
    /\ pc = "main"
    /\ df = <<>>
    /\ invalid_dates = <<>>
    /\ cur = [i |-> 0, k |-> 0]
    /\ log = <<>>
    /\ exc = "none"
    /\ result = "none"

\* One turn of `for i, url in enumerate(urls)': the fetch, both labels, and
\* the row appended to results.
DateRangeUrl ==
    /\ pc = "main"
    /\ script = "date_range_analytics"
    /\ cur.i < Len(args.urls)
    /\ LET i == cur.i + 1
           url == args.urls[i]
       IN  /\ cur' = [cur EXCEPT !.i = i]
           /\ \E o \in BatchOutcomes :
                LET r == get_users_for_url(o)
                IN  IF r.raised
                    THEN /\ Abort("Exception")
                         /\ log' = Append(log, CallEvent(i, "users", url,
                                            args.start_date, args.end_date, <<>>))
                         /\ UNCHANGED df
                    ELSE /\ df' = Append(df,
                                    [url |-> url,
                                     start_date |-> args.start_date,
                                     end_date |-> args.end_date,
                                     users |-> r.value,
                                     category |-> classify_users(r.value, FALSE),
                                     detailed_category |-> classify_users(r.value, TRUE)])
                         /\ log' = log \o << CallEvent(i, "users", url,
                                               args.start_date, args.end_date, <<>>),
                                             ClassifyEvent >>
                         /\ UNCHANGED <<pc, exc>>
    /\ UNCHANGED <<script, args, invalid_dates, result>>

\* df = pd.DataFrame(results); df.to_csv(output_file); the summary.
DateRangeSave ==
    /\ pc = "main"
    /\ script = "date_range_analytics"
    /\ cur.i = Len(args.urls)
    /\ pc' = "done"
    /\ UNCHANGED <<script, args, df, invalid_dates, cur, log, exc, result>>

(***************************************************************************)
(* url_trend_analysis.py: one url, the windows of the sorted periods after *)
(* --start-date.                                                           *)
(***************************************************************************)
RECURSIVE Insert(_, _)
Insert(x, s) ==
    IF s = <<>> THEN <<x>>
    ELSE IF x <= Head(s) THEN <<x>> \o s
    ELSE <<Head(s)>> \o Insert(x, Tail(s))

RECURSIVE sorted(_)
sorted(s) == IF s = <<>> THEN <<>> ELSE Insert(Head(s), sorted(Tail(s)))

InitTrend ==
    /\ script = "url_trend_analysis"
    /\ \E u \in Urls, a \in DateTexts \cup {BadDateText}, ps \in DaysLists :
          args = [url |-> u, start_date |-> a, periods |-> sorted(ps)]
    /\ pc = "main"
    /\ df = <<>>
    /\ invalid_dates = <<>>
    /\ cur = [i |-> 0, k |-> 0]
    /\ log = <<>>
    /\ exc = "none"
    /\ result = "none"

\* pub_date = datetime.datetime.strptime(start_date, "%Y-%m-%d")
TrendParse ==
    /\ pc = "main"
    /\ script = "url_trend_analysis"
    /\ IF IsDateText(args.start_date)
       THEN /\ pc' = "periods"
            /\ UNCHANGED exc
       ELSE Abort("ValueError")
    /\ UNCHANGED <<script, args, df, invalid_dates, cur, log, result>>

\* The window of one period: the start text as given, the end formatted.
TrendWindow(start_date, days) ==
    [start |-> start_date, end |-> strftime(PlusDays(strptime(start_date), days))]

\* One turn of `for days in periods'.
TrendPeriod ==
    /\ pc = "periods"
    /\ script = "url_trend_analysis"
    /\ cur.k < Len(args.periods)
    /\ LET k == cur.k + 1
           days == args.periods[k]
           w == TrendWindow(args.start_date, days)
       IN  /\ cur' = [cur EXCEPT !.k = k]
           /\ \E o \in BatchOutcomes :
                LET r == get_users_for_url(o)
                IN  IF r.raised
                    THEN /\ Abort("Exception")
                         /\ log' = Append(log, CallEvent(1, days, args.url,
                                                         w.start, w.end, <<>>))
                         /\ UNCHANGED df
                    ELSE /\ df' = Append(df,
                                    [days |-> days,
                                     start_date |-> w.start,
                                     end_date |-> w.end,
                                     users |-> r.value,
                                     category |-> classify_users(r.value, FALSE),
                                     detailed_category |-> classify_users(r.value, TRUE)])
                         /\ log' = log \o << CallEvent(1, days, args.url,
                                                       w.start, w.end, <<>>),
                                             ClassifyEvent >>
                         /\ UNCHANGED <<pc, exc>>
    /\ UNCHANGED <<script, args, invalid_dates, result>>

\* The summary, df.to_csv and the chart (its failure is caught).
TrendSave ==
    /\ pc = "periods"
    /\ script = "url_trend_analysis"
    /\ cur.k = Len(args.periods)
    /\ pc' = "done"
    /\ UNCHANGED <<script, args, df, invalid_dates, cur, log, exc, result>>

(***************************************************************************)
(* The runs of the four entry points.                                      *)
(***************************************************************************)
Init == InitBatch \/ InitDateRange \/ InitTrend

Next ==
    \/ ParseArgs
    \/ read_csv
    \/ ConvertDates
    \/ AddColumns
    \/ NextRow
    \/ Fetch
    \/ Sleep
    \/ calculate_user_milestones
    \/ SaveResults
    \/ DateRangeUrl
    \/ DateRangeSave
    \/ TrendParse
    \/ TrendPeriod
    \/ TrendSave

Spec == Init /\ [][Next]_vars

(***************************************************************************)
(* classify_users called by itself, on every count up to MaxUsers.         *)
(***************************************************************************)
InitClassify ==
    /\ script = "classify_users"
    /\ \E n \in 0..MaxUsers, d \in BOOLEAN : args = [users |-> n, detailed |-> d]
    /\ pc = "call"
    /\ df = <<>>
    /\ invalid_dates = <<>>
    /\ cur = [i |-> 0, k |-> 0]
    /\ log = <<>>
    /\ exc = "none"
    /\ result = "none"

ClassifyCall ==
    /\ pc = "call"
    /\ script = "classify_users"
    /\ result' = classify_users(args.users, args.detailed)
    /\ pc' = "returned"
    /\ UNCHANGED <<script, args, df, invalid_dates, cur, log, exc>>

NextClassify == ClassifyCall

SpecClassify == InitClassify /\ [][NextClassify]_vars

(***************************************************************************)
(* get_users_for_url called by itself, on every failure and response, with *)
(* no custom_regex, with the empty str and with a pattern.                 *)
(***************************************************************************)
CustomRegexes == { <<>>, << <<>> >>, << <<"^", "/", "a", "$">> >> }

FetchArgs(outcome, url, custom_regex) ==
    [outcome |-> outcome, url |-> url, custom_regex |-> custom_regex,
     start_date |-> <<2024, 2, 28>>, end_date |-> <<2024, 2, 29>>]

InitFetch ==
    /\ script = "get_users_for_url"
    /\ \E u \in Urls, c \in CustomRegexes :
          \/ \E e \in ErrorKinds : args = FetchArgs(ErrorOutcome(e), u, c)
          \/ \E n \in 0..MaxRespRows :
                \E vs \in [1..n -> MetricValues] : args = FetchArgs(ResponseOf(vs), u, c)
    /\ pc = "call"
    /\ df = <<>>
    /\ invalid_dates = <<>>
    /\ cur = [i |-> 0, k |-> 0]
    /\ log = <<>>
    /\ exc = "none"
    /\ result = -1

GetUsersCall ==
    /\ pc = "call"
    /\ script = "get_users_for_url"
    /\ LET r == get_users_for_url(args.outcome)
       IN  IF r.raised
           THEN /\ Abort("Exception")
                /\ UNCHANGED result
           ELSE /\ result' = r.value
                /\ pc' = "returned"
                /\ UNCHANGED exc
    /\ log' = Append(log, CallEvent(1, "users", args.url, args.start_date,
                                    args.end_date, args.custom_regex))
    /\ UNCHANGED <<script, args, df, invalid_dates, cur>>

NextFetch == GetUsersCall

SpecFetch == InitFetch /\ [][NextFetch]_vars

(***************************************************************************)
(* create_url_regex_pattern called by itself.  A url is an optional site   *)
(* prefix, a run of the letter a, an optional second occurrence of the     *)
(* prefix and a tail of up to MaxTail characters, some of them special:   *)
(* the runs are chosen so that the cut at 40 characters falls before,      *)
(* inside and after the second prefix and the tail.                        *)
(***************************************************************************)
RECURSIVE Pad(_)
Pad(n) == IF n = 0 THEN <<>> ELSE <<"a">> \o Pad(n - 1)

PadLens == {0, 14, 15, 16, 38, 39, 40}
TailChars == {"a", ".", "\\"}

PatternUrl(head, n, mid, tail) == head \o Pad(n) \o mid \o tail

InitPattern ==
    /\ script = "create_url_regex_pattern"
    /\ \E head \in {<<>>, SitePrefix}, n \in PadLens, mid \in {<<>>, SitePrefix},
          k \in 0..MaxTail :
          \E tail \in [1..k -> TailChars] :
              args = [url |-> PatternUrl(head, n, mid, tail)]
    /\ pc = "call"
    /\ df = <<>>
    /\ invalid_dates = <<>>
    /\ cur = [i |-> 0, k |-> 0]
    /\ log = <<>>
    /\ exc = "none"
    /\ result = <<>>

PatternCall ==
    /\ pc = "call"
    /\ script = "create_url_regex_pattern"
    /\ result' = create_url_regex_pattern(args.url)
    /\ pc' = "returned"
    /\ UNCHANGED <<script, args, df, invalid_dates, cur, log, exc>>

NextPattern == PatternCall

SpecPattern == InitPattern /\ [][NextPattern]_vars

(***************************************************************************)
(* ga4_fetcher_uptodate.py on a table of three rows: one published on the  *)
(* cutoff day or before it, one without a date, one published after the    *)
(* cutoff, in any order.  The steps are those of the batch scripts; the    *)
(* script runs on as long as it has a step to take.                        *)
(***************************************************************************)
ScenarioRow(url, cell) == [url |-> url, date_published |-> cell, regex |-> <<>>]

ScenarioTables(v, m, a) ==
    { <<v, m, a>>, <<v, a, m>>, <<m, v, a>>, <<m, a, v>>, <<a, v, m>>, <<a, m, v>> }

InitScenario ==
    /\ script = "ga4_fetcher_uptodate"
    /\ \E um \in Urls, ua \in Urls, t \in {<<2024, 2, 28>>, <<2024, 2, 29>>},
          tod \in {0, 43200}, s \in SleepTimes :
          \E rows \in ScenarioTables(ScenarioRow(SitePrefix \o <<"a">>, TextCell(2024, 2, 28, tod)),
                                     ScenarioRow(um, NaNCell),
                                     ScenarioRow(ua, TextCell(2024, 3, 1, 0))) :
              args = [input_file |-> InputFile(TRUE, RequiredCols, rows),
                      sleep_time |-> s, date |-> t]
    /\ pc = "main"
    /\ df = <<>>
    /\ invalid_dates = <<>>
    /\ cur = [i |-> 0, k |-> 0]
    /\ log = <<>>
    /\ exc = "none"
    /\ result = "none"

NextScenario ==
    \/ ParseArgs
    \/ read_csv
    \/ ConvertDates
    \/ AddColumns
    \/ NextRow
    \/ Fetch
    \/ Sleep
    \/ calculate_user_milestones
    \/ SaveResults

SpecScenario == InitScenario /\ [][NextScenario]_vars /\ WF_vars(NextScenario)

(***************************************************************************)
(* Properties.                                                             *)
(***************************************************************************)

Classified == script = "classify_users" /\ pc = "returned"

\* C1: every count n >= 0 gets the label of the table of half-open
\* intervals: below 40000 the same label for both granularities, from
\* 40000 on ">40k" (standard), "40k-100k" below 100000 and ">100k" from
\* 100000 on (detailed).
C1_LabelsOfTheTable ==
    Classified =>
        LET n == args.users
            d == args.detailed
        IN  /\ (0 <= n /\ n < 10000) => result = "0-10k"
            /\ (10000 <= n /\ n < 20000) => result = "10-20k"
            /\ (20000 <= n /\ n < 30000) => result = "20-30k"
            /\ (30000 <= n /\ n < 40000) => result = "30-40k"
            /\ (40000 <= n /\ ~d) => result = ">40k"
            /\ (40000 <= n /\ n < 100000 /\ d) => result = "40k-100k"
            /\ (100000 <= n /\ d) => result = ">100k"
            /\ (n = 0) => result = "0-10k"
            /\ (n = 9999) => result = "0-10k"
            /\ (n = 10000) => result = "10-20k"
            /\ (n = 39999) => result = "30-40k"
            /\ (n = 40000) => result = (IF d THEN "40k-100k" ELSE ">40k")
            /\ (n = 99999) => result = (IF d THEN "40k-100k" ELSE ">40k")
            /\ (n = 100000) => result = (IF d THEN ">100k" ELSE ">40k")

C1_Witness ==
    Classified /\ args.users = 100000 /\ args.detailed /\ result = ">100k"

Fetched == script = "get_users_for_url" /\ pc = "returned"

\* The response is a sequence of rows whose values are integers in text.
WellFormedResponse(o) ==
    o.kind = "rows" /\ \A j \in 1..Len(o.rows) : IsIntLiteral(o.rows[j].value)

\* The total of the values of a response, from the last row back.
RECURSIVE TotalOf(_)
TotalOf(rows) ==
    IF Len(rows) = 0 THEN 0
    ELSE TotalOf(SubSeq(rows, 1, Len(rows) - 1)) + IntOf(rows[Len(rows)].value)

\* C2: get_users_for_url returns the sum of the metric value over every
\* row of the response: 0 for no rows, 8 for the rows ("a", 3), ("b", 5).
C2_SumOverEveryRow ==
    (Fetched /\ WellFormedResponse(args.outcome)) =>
        /\ result = TotalOf(args.outcome.rows)
        /\ (Len(args.outcome.rows) = 0) => result = 0
        /\ ( /\ Len(args.outcome.rows) = 2
             /\ args.outcome.rows[1].value = <<"3">>
             /\ args.outcome.rows[2].value = <<"5">> ) => result = 8

C2_Witness ==
    /\ Fetched
    /\ Len(args.outcome.rows) = 2
    /\ args.outcome.rows[1].value = <<"3">>
    /\ args.outcome.rows[2].value = <<"5">>
    /\ result = 8

InputRows == args.input_file.rows

\* The input table has been loaded: the file was read and has the columns
\* the run requires.
Loaded ==
    /\ script \in BatchScripts
    /\ args.input_file.readable
    /\ RequiredCols \subseteq args.input_file.cols
    /\ pc \notin {"main", "usage_exit", "read_csv"}

Terminated == pc \in {"done", "aborted"}

MissingDate(j) == InputRows[j].date_published.kind = "nan"

UnparseableDate(j) ==
    /\ InputRows[j].date_published.kind = "text"
    /\ ~IsDateText(InputRows[j].date_published.ymd)

WellFormedDate(j) ==
    /\ InputRows[j].date_published.kind = "text"
    /\ IsDateText(InputRows[j].date_published.ymd)

\* The calendar day of a well-formed date cell.
PubDay(j) == InputRows[j].date_published.ymd

InvalidRows == { invalid_dates[e].row : e \in 1..Len(invalid_dates) }

CallsFor(j) == { e \in 1..Len(log) : log[e].op = "run_report" /\ log[e].row = j }

\* C4: once the input table is loaded, the run ends in DONE with a full
\* table whatever the rows and the backend do: no exception leaves it.
C4_LoadedRunReachesDone ==
    Loaded =>
        /\ pc # "aborted"
        /\ exc = "none"
        /\ (pc = "done" => Len(df) = Len(InputRows))

\* C5: a row whose date is present but is no date is recorded as an
\* InvalidEntry, gets no backend call, and the other rows are processed.
C5_UnparseableDateRecorded ==
    (Loaded /\ Terminated) =>
        \A j \in 1..Len(InputRows) :
            UnparseableDate(j) =>
                /\ j \in InvalidRows
                /\ CallsFor(j) = {}
                /\ \A i \in 1..Len(InputRows) :
                      /\ MissingDate(i) => i \in InvalidRows
                      /\ (WellFormedDate(i) /\ script = "ga4_fetcher") => CallsFor(i) # {}

\* C6: a row is in the invalid-entries list if and only if its date is
\* missing or invalid.
C6_InvalidIffBadDate ==
    (Loaded /\ Terminated) =>
        \A j \in 1..Len(InputRows) :
            (j \in InvalidRows) <=> (MissingDate(j) \/ UnparseableDate(j))

\* The row was published on a day after the cutoff day.
AfterCutoff(j) == WellFormedDate(j) /\ Ymd2Ord(PubDay(j)) > Ymd2Ord(args.date)

HasColumns == pc \in {"rows", "fetch", "sleep", "returned", "classified", "done"}

\* C7: up to cutoff, a row published after the cutoff date gets no backend
\* call, keeps 0 in its users_to_<cutoff> cell and is no invalid entry.
C7_AfterCutoffSkipped ==
    (script = "ga4_fetcher_uptodate" /\ IsDateText(args.date)) =>
        \A j \in 1..Len(InputRows) :
            AfterCutoff(j) =>
                /\ CallsFor(j) = {}
                /\ j \notin InvalidRows
                /\ HasColumns => df[j].users[EndDateStr] = 0

C7_Witness ==
    /\ script = "ga4_fetcher_uptodate"
    /\ pc = "done"
    /\ \E j \in 1..Len(InputRows) : AfterCutoff(j) /\ df[j].users[EndDateStr] = 0
    /\ \E i \in 1..Len(InputRows) : CallsFor(i) # {}

\* C8: up to cutoff, every row with a valid date on or before the cutoff
\* day, at any time of that day, is fetched with the window
\* [publication day, cutoff day].
C8_OnOrBeforeCutoffFetched ==
    (script = "ga4_fetcher_uptodate" /\ pc = "done") =>
        \A j \in 1..Len(InputRows) :
            (WellFormedDate(j) /\ Ymd2Ord(PubDay(j)) <= Ymd2Ord(args.date)) =>
                \E e \in CallsFor(j) :
                    log[e].start = PubDay(j) /\ log[e].end = args.date

\* C9: every backend query of every entry point has start <= end.
C9_WindowsOrdered ==
    \A e \in 1..Len(log) :
        log[e].op = "run_report" => Ymd2Ord(log[e].start) <= Ymd2Ord(log[e].end)

\* The publication day a fixed-offset query starts from.
OffsetStart(e) ==
    IF script = "ga4_fetcher" THEN PubDay(log[e].row) ELSE args.start_date

\* C10: fixed offset, days >= 0: the window starts on the publication day
\* and ends exactly days calendar days later.
C10_OffsetWindowSpansDays ==
    script \in {"ga4_fetcher", "url_trend_analysis"} =>
        \A e \in 1..Len(log) :
            (log[e].op = "run_report" /\ log[e].col >= 0) =>
                /\ log[e].start = OffsetStart(e)
                /\ Ymd2Ord(log[e].end) - Ymd2Ord(log[e].start) = log[e].col

C10_Witness ==
    /\ script = "ga4_fetcher"
    /\ \E e \in 1..Len(log) :
          /\ log[e].op = "run_report"
          /\ log[e].col = 2
          /\ log[e].start = <<2024, 2, 28>>
          /\ log[e].end = <<2024, 3, 1>>
    /\ \E e \in 1..Len(log) :
          /\ log[e].op = "run_report"
          /\ log[e].col = 1
          /\ InputRows[log[e].row].date_published.tod > 0
          /\ log[e].start = <<2024, 2, 29>>
          /\ log[e].end = <<2024, 3, 1>>

(***************************************************************************)
(* Pauses, patterns and the order of the steps.                            *)
(***************************************************************************)
Orchestrators == BatchScripts \cup {"date_range_analytics", "url_trend_analysis"}

Calls == { e \in 1..Len(log) : log[e].op = "run_report" }
Sleeps == { e \in 1..Len(log) : log[e].op = "sleep" }

\* C11: in every run of every orchestrator that calls the backend each
\* sleep directly follows a backend call, each backend call is directly
\* followed by a sleep, and a finished run has slept as often as it called.
C11_PauseAfterEveryCall ==
    script \in Orchestrators =>
        /\ \A e \in Sleeps : e > 1 /\ (e - 1) \in Calls
        /\ \A e \in Calls : e < Len(log) => (e + 1) \in Sleeps
        /\ pc = "done" => Cardinality(Sleeps) = Cardinality(Calls)

RowPattern(j) ==
    IF "regex" \in args.input_file.cols THEN args.input_file.rows[j].regex ELSE <<>>

\* C13: in a batch run, fixed offset or up to cutoff, every backend query
\* for a row that carries a custom pattern filters on that pattern.
C13_RowPatternUsed ==
    script \in BatchScripts =>
        \A e \in Calls :
            RowPattern(log[e].row) # <<>> =>
                log[e].pattern = RowPattern(log[e].row)[1]

\* Row j of df is row j of the input file: its url, its regex and its date,
\* as read or as converted.
FromInputRow(j) ==
    /\ df[j].url = InputRows[j].url
    /\ df[j].regex = InputRows[j].regex
    /\ \/ df[j].date_published = InputRows[j].date_published
       \/ /\ CellParses(InputRows[j].date_published)
          /\ df[j].date_published = ParseCell(InputRows[j].date_published)

\* C14: from the moment the file is read to the end of a batch run the
\* table has exactly the rows of the input file, in the order of the
\* file, rows with a missing date and skipped rows included.
C14_RowsOfTheInput ==
    (script \in BatchScripts /\ args.input_file.readable
        /\ pc \notin {"main", "usage_exit", "read_csv"}) =>
            /\ Len(df) = Len(InputRows)
            /\ \A j \in 1..Len(df) : FromInputRow(j)

C14_Witness ==
    /\ script = "ga4_fetcher_uptodate"
    /\ pc = "done"
    /\ Len(InputRows) = 2
    /\ Len(df) = 2
    /\ MissingDate(1)
    /\ AfterCutoff(2)
    /\ df[1].url # df[2].url

C16_InvalidRowNotClassified ==
    script \in BatchScripts =>
        \A j \in 1..Len(df) :
            (MissingDate(j) \/ UnparseableDate(j)) =>
                /\ DOMAIN df[j].milestone = {}
                /\ DOMAIN df[j].milestone_detailed = {}

EntriesOf(j) == { e \in 1..Len(invalid_dates) : invalid_dates[e].row = j }

\* C17: when a batch run on a loaded table has ended, the invalid list
\* holds exactly one entry for each row whose date is missing or is no
\* date, however many periods were asked for, and no other entry; the
\* entry carries the 1-based position of the row and the url of the row.
C17_OneEntryPerInvalidRow ==
    (Loaded /\ Terminated) =>
        /\ \A j \in 1..Len(InputRows) :
              Cardinality(EntriesOf(j)) =
                  IF MissingDate(j) \/ UnparseableDate(j) THEN 1 ELSE 0
        /\ \A e \in 1..Len(invalid_dates) :
              /\ invalid_dates[e].row \in 1..Len(InputRows)
              /\ invalid_dates[e].url = InputRows[invalid_dates[e].row].url

\* The input file cannot be read, or has no url or no date_published column.
BadInput ==
    /\ script \in BatchScripts
    /\ ~args.input_file.readable \/ ~(RequiredCols \subseteq args.input_file.cols)

\* C18: a batch run on a file that cannot be read or lacks a required
\* column makes no backend call and does not get past the batch function:
\* it ends with an error.
C18_BadInputAborts ==
    (BadInput /\ pc \notin {"main", "usage_exit"}) =>
        /\ Calls = {}
        /\ pc \in {"read_csv", "to_datetime", "add_columns", "rows", "aborted"}

Classifications == { e \in 1..Len(log) : log[e].op = "classify" }

\* Row j of the table is one the row loop fetches: its date is not NaT and,
\* up to cutoff, is not after end_date.
ToFetch(j) ==
    /\ ~isna(df[j].date_published)
    /\ script = "ga4_fetcher_uptodate" => ~PublishedAfter(df[j].date_published, EndDate)

\* C19 as stated, for the runs of ga4_fetcher.py, ga4_fetcher_uptodate.py
\* and date_range_analytics.py: no label is computed before the last
\* backend call, and a finished run has classified.
C19_ClassifyAfterAllFetches ==
    script \in BatchScripts \cup {"date_range_analytics"} =>
        /\ \A c \in Classifications : \A e \in Calls : e < c
        /\ pc = "done" /\ Calls # {} => Classifications # {}

\* C19: in a run of ga4_fetcher.py or ga4_fetcher_uptodate.py no label is
\* computed until every requested period of every row to fetch has been
\* fetched: the classification is the last event of the run, it directly
\* follows the pause of the last backend call, and the run is done only
\* after it.
C19_BatchClassifiesLast ==
    script \in BatchScripts =>
        /\ \A c \in Classifications :
              /\ c = Len(log)
              /\ c > 1 => (c - 1) \in Sleeps
        /\ pc \notin {"classified", "done"} =>
              /\ Classifications = {}
              /\ \A j \in 1..Len(df) :
                    DOMAIN df[j].milestone = {} /\ DOMAIN df[j].milestone_detailed = {}
        /\ pc \in {"classified", "done"} =>
              /\ Cardinality(Classifications) = 1
              /\ \A j \in 1..Len(df) :
                    ToFetch(j) =>
                        \A c \in DOMAIN df[j].users :
                            \E e \in CallsFor(j) : log[e].col = c

C19_Witness ==
    /\ script = "ga4_fetcher"
    /\ pc = "done"
    /\ args.days_list = <<2, 1>>
    /\ Len(df) = 2
    /\ Cardinality(Calls) = 4
    /\ Cardinality(Sleeps) = 4
    /\ Classifications = {9}
    /\ df[2].milestone[1] = "10-20k"

\* C20 as stated: when the first backend call is issued every row has been
\* validated, so every row with a missing date is in the invalid list.
C20_ValidationBeforeFirstCall ==
    (script \in BatchScripts /\ Calls # {}) =>
        \A j \in 1..Len(InputRows) : MissingDate(j) => j \in InvalidRows

\* C20: a batch run loads, then loops over the rows, then classifies, then
\* is done.  Nothing is validated or fetched before the table is loaded;
\* the rows are validated one by one inside the row loop, each before its
\* own backend calls, so that a backend call for row j finds rows 1..j
\* validated and no later row; all rows are validated when the loop has
\* ended, before the classification.
C20_RowsValidatedInTheLoop ==
    script \in BatchScripts =>
        /\ pc \in {"main", "usage_exit", "read_csv", "to_datetime", "add_columns"} =>
              log = <<>> /\ invalid_dates = <<>>
        /\ \A e \in Calls :
              /\ ~MissingDate(log[e].row)
              /\ log[e].row <= cur.i
              /\ \A i \in 1..log[e].row : MissingDate(i) => i \in InvalidRows
        /\ \A j \in InvalidRows : j <= cur.i
        /\ pc \in {"returned", "classified", "done"} =>
              /\ cur.i = Len(df)
              /\ \A j \in 1..Len(InputRows) : MissingDate(j) => j \in InvalidRows
        /\ pc = "done" => Classifications # {}

C20_Witness ==
    /\ script = "ga4_fetcher"
    /\ pc = "rows"
    /\ Len(InputRows) = 2
    /\ cur.i = 1
    /\ CallsFor(1) # {}
    /\ MissingDate(2)
    /\ InvalidRows = {}

(***************************************************************************)
(* The derived pattern.                                                    *)
(***************************************************************************)
PatternMade == script = "create_url_regex_pattern" /\ pc = "returned"

\* The characters with a special meaning in a regular expression.
RegexMeta == { ".", "^", "$", "*", "+", "?", "{", "}", "[", "]", "\\", "|", "(", ")" }

\* p read as an escaped text from position k on: a backslash and the
\* character after it stand for that character.
RECURSIVE Unescape(_, _)
Unescape(p, k) ==
    IF k > Len(p) THEN <<>>
    ELSE IF p[k] = "\\" /\ k < Len(p) THEN <<p[k + 1]>> \o Unescape(p, k + 2)
    ELSE <<p[k]>> \o Unescape(p, k + 1)

\* From position k on, every special character of p follows a backslash
\* that escapes it.
RECURSIVE WellEscaped(_, _)
WellEscaped(p, k) ==
    IF k > Len(p) THEN TRUE
    ELSE IF p[k] = "\\" THEN k < Len(p) /\ WellEscaped(p, k + 2)
    ELSE p[k] \notin RegexMeta /\ WellEscaped(p, k + 1)

Contains(s, sub) ==
    \E k \in 0..(Len(s) - Len(sub)) : SubSeq(s, k + 1, k + Len(sub)) = sub

\* The url without its leading site prefix, where it begins with it.
Stripped(url) ==
    IF Len(url) >= Len(SitePrefix) /\ (\A k \in 1..Len(SitePrefix) : url[k] = SitePrefix[k])
    THEN [k \in 1..(Len(url) - Len(SitePrefix)) |-> url[k + Len(SitePrefix)]]
    ELSE url

\* The first 40 characters of s.
First40(s) == [k \in 1..(IF Len(s) < 40 THEN Len(s) ELSE 40) |-> s[k]]

\* C21: the pattern is the regex-escaped form of the first 40 characters of
\* the url without its leading site prefix (of the url itself where it does
\* not begin with the prefix): read back, the pattern is that text, is
\* never longer than 40 characters, and the pattern has one backslash more
\* for each of its special characters.
C21_EscapedFirst40 ==
    PatternMade =>
        LET t == First40(Stripped(args.url))
        IN  /\ Unescape(result, 1) = t
            /\ Len(Unescape(result, 1)) <= 40
            /\ WellEscaped(result, 1)
            /\ Len(result) = Len(t) + Cardinality({ k \in 1..Len(t) : t[k] \in SpecialChars })

C21_Witness ==
    /\ PatternMade
    /\ args.url = PatternUrl(SitePrefix, 39, <<>>, <<".", "a">>)
    /\ result = Pad(39) \o <<"\\", ".">>

\* The pattern carries the site prefix, as it stands or escaped.
HasPrefix(p) == Contains(p, SitePrefix) \/ Contains(p, escape(SitePrefix))

Occurrences(s, sub) ==
    { k \in 0..(Len(s) - Len(sub)) : SubSeq(s, k + 1, k + Len(sub)) = sub }

\* C22 as stated: the pattern of a url that begins with the site prefix
\* never carries the prefix, a second occurrence in the url included.
C22_NeverThePrefix ==
    (PatternMade /\ startswith(args.url, SitePrefix)) => ~HasPrefix(result)

\* C22: the pattern of a url that begins with the site prefix and holds it
\* only there does not carry the prefix; the leading occurrence alone is
\* removed, so that the pattern carries the prefix exactly when the first
\* 40 characters after the leading occurrence hold it again.
C22_LeadingPrefixRemoved ==
    (PatternMade /\ startswith(args.url, SitePrefix)) =>
        /\ Cardinality(Occurrences(args.url, SitePrefix)) = 1 => ~HasPrefix(result)
        /\ HasPrefix(result) <=> Contains(First40(Stripped(args.url)), SitePrefix)

C22_Witness ==
    /\ PatternMade
    /\ args.url = PatternUrl(SitePrefix, 38, <<>>, <<".", "a">>)
    /\ result = Pad(38) \o <<"\\", ".", "a">>
    /\ ~HasPrefix(result)

\* C23: in the pattern every character with a special meaning in a regular
\* expression follows a backslash that escapes it, the last character
\* included: the cut at 40 characters is made before the escaping and never
\* parts a backslash from its character.
C23_NoUnescapedSpecial ==
    PatternMade =>
        /\ WellEscaped(result, 1)
        /\ \A k \in 1..Len(result) :
              (result[k] \in RegexMeta /\ result[k] # "\\") => (k > 1 /\ result[k - 1] = "\\")

C23_Witness ==
    /\ PatternMade
    /\ args.url = PatternUrl(<<>>, 39, <<>>, <<"\\", ".">>)
    /\ result = Pad(39) \o <<"\\", "\\">>

(***************************************************************************)
(* The order of the labels.                                                *)
(***************************************************************************)
LabelList(detailed) ==
    IF detailed THEN <<"0-10k", "10-20k", "20-30k", "30-40k", "40k-100k", ">100k">>
    ELSE <<"0-10k", "10-20k", "20-30k", "30-40k", ">40k">>

\* The rank of a label in the ordered label list, 0 for a text that is no
\* label of the list.
Rank(label, detailed) ==
    LET l == LabelList(detailed)
    IN  IF \E k \in 1..Len(l) : l[k] = label
        THEN CHOOSE k \in 1..Len(l) : l[k] = label
        ELSE 0

\* Counts on both sides of every boundary of the two tables.
Probes ==
    { 0, 1, 9999, 10000, 19999, 20000, 29999, 30000, 39999, 40000, 99999, 100000 }

\* C24: for both granularities the rank of the label does not decrease with
\* the count: the label of n ranks at least as high as the label of n - 1,
\* which gives rank(m) <= rank(n) for all 0 <= m <= n by induction on n, and
\* at least as high as the label of every probe m <= n.
C24_RankMonotone ==
    Classified =>
        LET n == args.users
            d == args.detailed
        IN  /\ Rank(result, d) >= 1
            /\ n > 0 => Rank(classify_users(n - 1, d), d) <= Rank(result, d)
            /\ \A m \in Probes : m <= n => Rank(classify_users(m, d), d) <= Rank(result, d)

C24_Witness ==
    /\ Classified
    /\ args.users = 40000
    /\ args.detailed
    /\ Rank(result, TRUE) = 5
    /\ Rank(classify_users(39999, TRUE), TRUE) = 4

(***************************************************************************)
(* The run on three rows.                                                  *)
(***************************************************************************)
\* The row of the scenario that has a date on the cutoff day or before it.
DatedRow(j) == WellFormedDate(j) /\ ~AfterCutoff(j)

\* What the ended run of the scenario has made.
ScenarioOutcome ==
    /\ Len(df) = 3
    /\ Len(invalid_dates) = 1
    /\ \A j \in 1..3 :
          /\ MissingDate(j) =>
                /\ df[j].users[EndDateStr] = 0
                /\ CallsFor(j) = {}
                /\ invalid_dates[1] = [row |-> j, url |-> InputRows[j].url]
          /\ AfterCutoff(j) =>
                /\ CallsFor(j) = {}
                /\ j \notin InvalidRows
                /\ df[j].users[EndDateStr] = 0
          /\ (DatedRow(j) /\ CallsFor(j) # {} /\ df[j].users[EndDateStr] = 12000) =>
                /\ df[j].milestone[EndDateStr] = "10-20k"
                /\ df[j].milestone_detailed[EndDateStr] = "10-20k"

\* C25: the run on the three rows comes to its end, and at its end the
\* table has 3 rows and the invalid list 1 entry: the row whose fetch gave
\* 12000 users is labelled "10-20k" in both columns, the row without a
\* date has 0 users and the one invalid entry, with its 1-based position,
\* the row published after the cutoff has no backend call and no entry.
C25_ThreeRowScenario ==
    /\ <>(pc = "done")
    /\ [](pc = "done" => ScenarioOutcome)

C25_Witness ==
    /\ script = "ga4_fetcher_uptodate"
    /\ pc = "done"
    /\ Len(df) = 3
    /\ DatedRow(1) /\ MissingDate(2) /\ AfterCutoff(3)
    /\ Cardinality(Calls) = 1
    /\ df[1].users[EndDateStr] = 12000
    /\ df[1].milestone[EndDateStr] = "10-20k"
    /\ df[1].milestone_detailed[EndDateStr] = "10-20k"
    /\ df[2].users[EndDateStr] = 0
    /\ invalid_dates = << [row |-> 2, url |-> InputRows[2].url] >>
    /\ df[3].users[EndDateStr] = 0

(***************************************************************************)
(* The columns and the calls of a batch run.                               *)
(***************************************************************************)
\* C26: when a batch run is done, every row has for each users column one
\* standard and one detailed milestone column and no other, and they hold
\* classify_users of the count of the users cell, with detailed=False and
\* with detailed=True.
C26_LabelsOfTheCounts ==
    (script \in BatchScripts /\ pc = "done") =>
        \A j \in 1..Len(df) :
            /\ DOMAIN df[j].users = UsersColumns
            /\ DOMAIN df[j].milestone = UsersColumns
            /\ DOMAIN df[j].milestone_detailed = UsersColumns
            /\ \A c \in UsersColumns :
                  /\ df[j].milestone[c] = classify_users(df[j].users[c], FALSE)
                  /\ df[j].milestone_detailed[c] = classify_users(df[j].users[c], TRUE)

C26_Witness ==
    /\ script = "ga4_fetcher"
    /\ pc = "done"
    /\ args.days_list = <<2, 1>>
    /\ Len(df) = 2
    /\ df[1].users[2] = 45000
    /\ df[1].milestone[2] = ">40k"
    /\ df[1].milestone_detailed[2] = "40k-100k"
    /\ df[1].users[1] = 0
    /\ df[1].milestone[1] = "0-10k"
    /\ df[2].users[1] = 12000
    /\ df[2].milestone_detailed[1] = "10-20k"

ValidRows == { j \in 1..Len(InputRows) : WellFormedDate(j) }

\* C27: a fixed-offset run that is done has made one backend call for each
\* row with a valid date and each distinct requested window, and no more:
\* no row is queried twice for the same window.
C27_OneCallPerRowAndWindow ==
    (script = "ga4_fetcher" /\ pc = "done") =>
        /\ Cardinality(Calls) = Cardinality(ValidRows) * Cardinality(Range(args.days_list))
        /\ \A e1 \in Calls, e2 \in Calls :
              (log[e1].row = log[e2].row /\ log[e1].start = log[e2].start
                  /\ log[e1].end = log[e2].end) => e1 = e2

\* The calls for the row of call e made up to and including e.
CallsUpTo(e) == { f \in CallsFor(log[e].row) : f <= e }

\* C28: the backend calls of a batch run are made one at a time, in the
\* order of the rows and, within a row, in the order of the requested
\* periods: a call is never followed directly by another call, the rows
\* of the calls never go back, and the k-th call of a row is for the k-th
\* requested period (up to cutoff a row has one call at most).
C28_CallsInInputOrder ==
    script \in BatchScripts =>
        /\ \A e \in Calls : (e + 1) \notin Calls
        /\ \A e1 \in Calls, e2 \in Calls : e1 < e2 => log[e1].row <= log[e2].row
        /\ \A e \in Calls :
              IF script = "ga4_fetcher"
              THEN /\ Cardinality(CallsUpTo(e)) <= Len(args.days_list)
                   /\ log[e].col = args.days_list[Cardinality(CallsUpTo(e))]
              ELSE Cardinality(CallsUpTo(e)) = 1

C28_Witness ==
    /\ script = "ga4_fetcher"
    /\ pc = "done"
    /\ args.days_list = <<2, 1>>
    /\ Len(log) = 9
    /\ log[1].op = "run_report" /\ log[1].row = 1 /\ log[1].col = 2
    /\ log[3].op = "run_report" /\ log[3].row = 1 /\ log[3].col = 1
    /\ log[5].op = "run_report" /\ log[5].row = 2 /\ log[5].col = 2
    /\ log[7].op = "run_report" /\ log[7].row = 2 /\ log[7].col = 1

\* The cells of row j other than users[column] are the same before and
\* after the step.
RowKeptBut(j, column) ==
    /\ df'[j].url = df[j].url
    /\ df'[j].date_published = df[j].date_published
    /\ df'[j].regex = df[j].regex
    /\ df'[j].milestone = df[j].milestone
    /\ df'[j].milestone_detailed = df[j].milestone_detailed
    /\ DOMAIN df'[j].users = DOMAIN df[j].users
    /\ \A c \in DOMAIN df[j].users : c # column => df'[j].users[c] = df[j].users[c]

\* C29: the fetch for row i and period d writes the cell (i, users_<d>) and
\* nothing else: every other row, the input columns of row i and the users
\* cells of row i for the other periods are as before; between two fetches
\* the row loop and the pause change no cell.
C29_OnlyTheCellWritten ==
    [][ /\ (script \in BatchScripts /\ pc = "fetch") =>
              /\ Len(df') = Len(df)
              /\ \A j \in 1..Len(df) :
                    IF j = cur.i THEN RowKeptBut(j, FetchColumn) ELSE df'[j] = df[j]
        /\ (script \in BatchScripts /\ pc \in {"rows", "sleep"}) => df' = df ]_vars

C29_Witness ==
    /\ script = "ga4_fetcher"
    /\ pc = "returned"
    /\ args.days_list = <<2, 1>>
    /\ Len(df) = 2
    /\ df[1].users[2] = 12000 /\ df[1].users[1] = 0
    /\ df[2].users[2] = 0 /\ df[2].users[1] = 45000
    /\ Cardinality(Calls) = 4

(***************************************************************************)
(* A metric value that is no integer.                                      *)
(***************************************************************************)
BadValueRows(o) == { k \in 1..Len(o.rows) : ~IsIntLiteral(o.rows[k].value) }

=============================================================================
